---- MODULE Spec2Model ----
(***************************************************************************)
(* The transfer-edge assembler of housing_nyc/transit.py (class GtfsGraph) *)
(* as a state machine.  The state is one GtfsGraph object (its node table, *)
(* edge table, transfer_edges, error_nodes), the feed's transfers.txt, and *)
(* the position and locals of the method that is executing.                *)
(*                                                                         *)
(* Spec is the transfer builders on a restructured graph, SpecAggregate    *)
(* the builders with averaged_edges, SpecCanon restructure_graph and       *)
(* _check_transfer on a graph fresh from the feed.                         *)
(*                                                                         *)
(* Tables (pandas DataFrames) are sequences of records, in row order.      *)
(* Times are exact rationals [num, den]; den = 0 is the float NaN.  The    *)
(* rounding of the wait array to float32 (dtype="f") is not modelled.      *)
(* self.agency, self.net_type and self.feed_path are read by the class but *)
(* never assigned by it: the caller sets them before building.             *)
(***************************************************************************)
EXTENDS Integers, Sequences, FiniteSets, TLC

\* ------------------------------------------------------------- bounds
MaxNodes == 3

MaxRules == 2

MaxTrips == 2

MaxErrorRows == 2

MaxEdgeRows == 24

\* ---------------------------------------------------------- constants
Null == "NULL"

Unbound == "UNBOUND"

Agency == "mta"

NetType == "transit"

Stations == {"S1", "S2"}

\* -------------------------------------------------- float arithmetic
RECURSIVE GCD(_, _)
GCD(a, b) == IF b = 0 THEN a ELSE GCD(b, a % b)

Norm(n, d) == LET g == GCD(n, d) IN [num |-> n \div g, den |-> d \div g]

NaN == [num |-> 0, den |-> 0]

IsNaN(x) == x.den = 0

FromInt(n) == [num |-> n, den |-> 1]

Add(x, y) ==
    IF IsNaN(x) \/ IsNaN(y) THEN NaN
    ELSE Norm(x.num * y.den + y.num * x.den, x.den * y.den)

DivInt(x, k) == IF IsNaN(x) THEN NaN ELSE Norm(x.num, x.den * k)

\* x >= y on floats: every comparison with NaN is false
Geq(x, y) == ~IsNaN(x) /\ ~IsNaN(y) /\ x.num * y.den >= y.num * x.den

RECURSIVE SumWeights(_)
SumWeights(ws) ==
    IF ws = <<>> THEN FromInt(0) ELSE Add(ws[1], SumWeights(Tail(ws)))

\* Series.mean(): NaN on an empty series
Mean(ws) == IF ws = <<>> THEN NaN ELSE DivInt(SumWeights(ws), Len(ws))

\* ------------------------------------------------------------ tables
Column(table, col) == [i \in 1..Len(table) |-> table[i][col]]

NodeId(stop, route) == <<stop, "_", route>>

\* str.split("_", 1)[1]: what follows the first "_" of a node id
RouteSuffix(id) ==
    LET k == CHOOSE i \in 1..Len(id) :
                 id[i] = "_" /\ \A j \in 1..(i - 1) : id[j] # "_"
    IN SubSeq(id, k + 1, Len(id))

\* list(itertools.permutations(child_station, 2))
Permutations2(s) ==
    LET n == Len(s)
        all == [k \in 1..(n * n) |-> <<((k - 1) \div n) + 1, ((k - 1) % n) + 1>>]
        idx == SelectSeq(all, LAMBDA p : p[1] # p[2])
    IN [k \in 1..Len(idx) |-> <<s[idx[k][1]], s[idx[k][2]]>>]

\* _permuted_edges: pd.concat of an empty list raises ValueError
PermutedEdgesRaises(permute) == Len(permute) = 0

PermutedEdges(permute, transfer_transport_time) ==
    [i \in 1..Len(permute) |->
        [node_id_from |-> permute[i][1],
         node_id_to |-> permute[i][2],
         weight |-> transfer_transport_time[i],
         unique_agency_id |-> Agency,
         route_type |-> "transfer",
         net_type |-> NetType]]

\* index of the rows of the node table whose parent_station equals ps
\* (a null parent_station equals nothing)
ChildStation(node_table, ps) ==
    Column(SelectSeq(node_table,
                     LAMBDA r : r.parent_station # Null /\ r.parent_station = ps),
           "node_id")

\* transfer["min_transfer_time"][transfer["from_stop_id"] == parent_station]
MinTransferTime(transfer, ps) ==
    Column(SelectSeq(transfer, LAMBDA t : t.from_stop_id = ps), "min_transfer_time")

\* mutant of IngestTransfer: the seconds are kept, the division by 60 lost
IngestTransferNoDivision(rows) ==
    [i \in 1..Len(rows) |->
        [from_stop_id |-> rows[i].from_stop_id,
         to_stop_id |-> rows[i].to_stop_id,
         min_transfer_time |-> FromInt(rows[i].min_transfer_time)]]

\* transfer["min_transfer_time"] / 60 in build_transfer_edges
IngestTransfer(rows) ==
    [i \in 1..Len(rows) |->
        [from_stop_id |-> rows[i].from_stop_id,
         to_stop_id |-> rows[i].to_stop_id,
         min_transfer_time |-> Norm(rows[i].min_transfer_time, 60)]]

BaseTransferTime == 2

\* mutant of IntraGroupEdges: the branch for groups of two is lost, and
\* the route test of the larger groups applies to them too
IntraGroupEdgesRouteTestAlways(child_station, transfer, ps, base_transfer_time) ==
    LET permute == Permutations2(child_station)
        min_transfer_time == MinTransferTime(transfer, ps)
        many == [i \in 1..Len(permute) |->
                   IF RouteSuffix(permute[i][1]) # RouteSuffix(permute[i][2])
                      /\ min_transfer_time # <<>>
                   THEN min_transfer_time[1]
                   ELSE base_transfer_time]
    IN IF Len(child_station) < 2 THEN <<>>
       ELSE PermutedEdges(permute, many)

\* one pass of the while loop's non-null branch: the transfer edges of the
\* group of parent_station ps
IntraGroupEdges(child_station, transfer, ps, base_transfer_time) ==
    LET permute == Permutations2(child_station)
        min_transfer_time == MinTransferTime(transfer, ps)
        two == [i \in 1..Len(permute) |->
                   IF min_transfer_time # <<>> THEN min_transfer_time[1]
                   ELSE base_transfer_time]
        many == [i \in 1..Len(permute) |->
                   IF RouteSuffix(permute[i][1]) # RouteSuffix(permute[i][2])
                      /\ min_transfer_time # <<>>
                   THEN min_transfer_time[1]
                   ELSE base_transfer_time]
    IN IF Len(child_station) < 2 THEN <<>>
       ELSE IF Len(child_station) = 2 THEN PermutedEdges(permute, two)
       ELSE PermutedEdges(permute, many)

\* transfer_nodes.drop(transfer_nodes[parent_station == ps].index)
DropStation(node_table, ps) ==
    SelectSeq(node_table,
              LAMBDA r : ~(r.parent_station # Null /\ r.parent_station = ps))

\* the for loop of _build_intertransfer_edges over interchange[k..]:
\* [raised, edges]; a rule with fewer than two child stations raises
RECURSIVE InterLoop(_, _, _, _)
InterLoop(interchange, k, node_table, base_transfer_time) ==
    IF k > Len(interchange) THEN [raised |-> FALSE, edges |-> <<>>]
    ELSE
        LET rule == interchange[k]
            child_station ==
                Column(SelectSeq(node_table,
                          LAMBDA r : r.parent_station # Null
                                     /\ (r.parent_station = rule.from_stop_id
                                         \/ r.parent_station = rule.to_stop_id)),
                       "node_id")
            permute == Permutations2(child_station)
            times == [i \in 1..Len(permute) |->
                        IF RouteSuffix(permute[i][1]) # RouteSuffix(permute[i][2])
                        THEN rule.min_transfer_time
                        ELSE base_transfer_time]
            rest == InterLoop(interchange, k + 1, node_table, base_transfer_time)
        IN IF PermutedEdgesRaises(permute) \/ rest.raised
           THEN [raised |-> TRUE, edges |-> <<>>]
           ELSE [raised |-> FALSE,
                 edges |-> PermutedEdges(permute, times) \o rest.edges]

BuildIntertransferEdges(transfer, base_transfer_time, node_table) ==
    LET interchange ==
            SelectSeq(transfer, LAMBDA t : t.from_stop_id # t.to_stop_id)
    IN InterLoop(interchange, 1, node_table, base_transfer_time)

\* _expected_wait_times: half the mean weight of the rows of self.edges
\* that end at each transfer edge's destination
ExpectedWaitTimes(edge_table, transfer_table) ==
    [i \in 1..Len(transfer_table) |->
        DivInt(Mean(Column(SelectSeq(edge_table,
                              LAMBDA e : e.node_id_to = transfer_table[i].node_id_to),
                           "weight")),
               2)]

\* ------------------------------------------------------------ inputs
\* row i is stop i, served by route r1 (odd rows) or r2 (even rows)
RouteOfRow(i) == IF i % 2 = 1 THEN "r1" ELSE "r2"

NodeRows(i) ==
    {[node_id |-> NodeId(ToString(i), RouteOfRow(i)), parent_station |-> p] :
        p \in Stations \cup {Null}}

NodeTables ==
    UNION {{t \in [1..n -> UNION {NodeRows(i) : i \in 1..n}] :
               \A i \in 1..n : t[i] \in NodeRows(i)} : n \in 0..MaxNodes}

\* transfers.txt, min_transfer_time in seconds: a rule inside S1, the two
\* rules between S1 and S2, and a rule to S3, a station no node names
FeedRule(from, to, seconds) ==
    [from_stop_id |-> from, to_stop_id |-> to, min_transfer_time |-> seconds]

FeedRules ==
    {FeedRule("S1", "S1", 180), FeedRule("S1", "S2", 300),
     FeedRule("S2", "S1", 120), FeedRule("S2", "S3", 90)}

FeedTransfers == UNION {[1..n -> FeedRules] : n \in 0..MaxRules}

\* the scheduled edges: trips along the line of the node rows, trip t
\* reaching row j after TripWeight(t, j) minutes; the even trips run on
\* from the last row to the first
TripWeight(t, j) == 2 * t + j

Hop(node_table, t, i, j) ==
    [node_id_from |-> node_table[i].node_id,
     node_id_to |-> node_table[j].node_id,
     weight |-> FromInt(TripWeight(t, j)),
     unique_agency_id |-> Agency,
     route_type |-> "subway",
     net_type |-> NetType]

RECURSIVE ScheduledEdges(_, _)
ScheduledEdges(node_table, trips) ==
    LET n == Len(node_table)
        line == [i \in 1..(n - 1) |-> Hop(node_table, trips, i, i + 1)]
        back == IF trips % 2 = 0 THEN <<Hop(node_table, trips, n, 1)>> ELSE <<>>
    IN IF trips = 0 \/ n < 2 THEN <<>>
       ELSE ScheduledEdges(node_table, trips - 1) \o line \o back

\* ------------------------------------------------------------- state
VARIABLES
    nodes,           \* self.nodes
    edges,           \* self.edges
    transfer_edges,  \* self.transfer_edges
    error_nodes,     \* self.error_nodes
    feed_transfers,  \* the rows of transfers.txt
    call,            \* the method the caller invoked last
    pc,              \* "idle", or the position inside the running call
    frame,           \* locals of the running _build_intratransfer_edges
    pivots,          \* history: the parent stations the loop selected
    outcome,         \* "none", "running", "returned" or the exception raised
    result,          \* what the last finished call returned
    base_weights,    \* history: the weight column line 411 assigned
    averaged_edges,  \* self.averaged_edges
    feed_nodes,      \* _ua_net.transit_nodes, the feed's node table
    feed_edges,      \* _ua_net.transit_edges, the feed's edge table
    edges_rebound,   \* self.edges is no longer the feed's table object
    exc_arg,         \* the argument of the exception raised last
    passed,          \* the caller's table handed to the last _check_transfer
    restructures     \* history: the restructure_graph calls made

vars == <<nodes, edges, transfer_edges, error_nodes, feed_transfers,
          call, pc, frame, pivots, outcome, result, base_weights,
          averaged_edges, feed_nodes, feed_edges, edges_rebound, exc_arg, passed,
          restructures>>

\* what the transfer builders leave alone
feed_vars == <<averaged_edges, feed_nodes, feed_edges, edges_rebound, exc_arg,
               passed, restructures>>

self_vars == <<nodes, edges, transfer_edges, error_nodes, feed_transfers,
               base_weights, feed_vars>>

\* the caller's table as handed in, and as it is after the call
NothingPassed == [given |-> <<>>, after |-> <<>>]

NoFrame ==
    [transfer |-> <<>>, transfer_nodes |-> <<>>, transfer_edges |-> <<>>,
     error_nodes |-> <<>>, parent_station |-> Unbound]

\* lines 250-253 of _build_intratransfer_edges
NewFrame(transfer) ==
    [transfer |-> transfer, transfer_nodes |-> nodes, transfer_edges |-> <<>>,
     error_nodes |-> <<>>, parent_station |-> Unbound]

Init ==
    /\ nodes \in NodeTables
    /\ feed_transfers \in FeedTransfers
    /\ \E t \in 0..MaxTrips : edges = ScheduledEdges(nodes, t)
    /\ transfer_edges = <<>>
    /\ error_nodes = <<>>
    /\ call = "none"
    /\ pc = "idle"
    /\ frame = NoFrame
    /\ pivots = <<>>
    /\ outcome = "none"
    /\ result = <<>>
    /\ base_weights = <<>>
    /\ averaged_edges = <<>>
    /\ feed_nodes = nodes
    /\ feed_edges = edges
    /\ edges_rebound = FALSE
    /\ exc_arg = <<>>
    /\ passed = NothingPassed
    /\ restructures = 0

\* the caller invokes _build_intratransfer_edges(transfer, 2) with the
\* transfer table build_transfer_edges would pass
CallBuildIntratransferEdges ==
    /\ pc = "idle"
    /\ call' = "_build_intratransfer_edges"
    /\ pc' = "intra_loop"
    /\ frame' = NewFrame(IngestTransfer(feed_transfers))
    /\ pivots' = <<>>
    /\ outcome' = "running"
    /\ result' = <<>>
    /\ UNCHANGED self_vars

Raise(exception) ==
    /\ pc' = "idle"
    /\ frame' = NoFrame
    /\ outcome' = exception
    /\ result' = <<>>

\* one iteration of the while loop, lines 257-309
IntraLoopIteration ==
    /\ pc = "intra_loop"
    /\ frame.transfer_nodes # <<>>
    /\ LET first == frame.transfer_nodes[1]
           isnull == first.parent_station = Null
           ps == IF isnull THEN frame.parent_station ELSE first.parent_station
       IN /\ isnull => Len(frame.error_nodes) < MaxErrorRows
          /\ IF ps = Unbound
             THEN /\ Raise("UnboundLocalError")
                  /\ UNCHANGED pivots
             ELSE /\ frame' =
                        [frame EXCEPT
                            !.parent_station = ps,
                            !.transfer_edges =
                                IF isnull THEN @
                                ELSE @ \o IntraGroupEdges(
                                              ChildStation(frame.transfer_nodes, ps),
                                              frame.transfer, ps,
                                              FromInt(BaseTransferTime)),
                            !.error_nodes = IF isnull THEN Append(@, first) ELSE @,
                            !.transfer_nodes = DropStation(@, ps)]
                  /\ pivots' = IF isnull THEN pivots ELSE Append(pivots, ps)
                  /\ UNCHANGED <<pc, outcome, result>>
    /\ UNCHANGED <<self_vars, call>>

\* the loop's exit and lines 313-325
IntraLoopExit ==
    /\ pc = "intra_loop"
    /\ frame.transfer_nodes = <<>>
    /\ error_nodes' = IF Len(frame.error_nodes) > 0 THEN frame.error_nodes
                      ELSE error_nodes
    /\ IF call = "_build_intratransfer_edges"
       THEN /\ pc' = "idle"
            /\ frame' = NoFrame
            /\ outcome' = "returned"
            /\ result' = frame.transfer_edges
       ELSE /\ pc' = "build_rest"
            /\ UNCHANGED <<frame, outcome, result>>
    /\ UNCHANGED <<nodes, edges, transfer_edges, feed_transfers, call, pivots,
                   base_weights, feed_vars>>

\* the caller invokes _build_intertransfer_edges(transfer, 2)
CallBuildIntertransferEdges ==
    /\ pc = "idle"
    /\ call' = "_build_intertransfer_edges"
    /\ LET r == BuildIntertransferEdges(IngestTransfer(feed_transfers),
                                        FromInt(BaseTransferTime), nodes)
       IN IF r.raised
          THEN /\ outcome' = "ValueError"
               /\ result' = <<>>
          ELSE /\ outcome' = "returned"
               /\ result' = r.edges
    /\ UNCHANGED <<self_vars, pc, frame, pivots>>

\* the caller invokes _expected_wait_times(self.transfer_edges)
CallExpectedWaitTimes ==
    /\ pc = "idle"
    /\ call' = "_expected_wait_times"
    /\ outcome' = "returned"
    /\ result' = ExpectedWaitTimes(edges, transfer_edges)
    /\ UNCHANGED <<self_vars, pc, frame, pivots>>

\* build_transfer_edges, lines 400-408, entering the intra builder
StartBuild(method) ==
    /\ call' = method
    /\ pc' = "intra_loop"
    /\ frame' = NewFrame(IngestTransfer(feed_transfers))
    /\ pivots' = <<>>
    /\ outcome' = "running"
    /\ result' = <<>>
    /\ UNCHANGED self_vars

CallBuildTransferEdges ==
    /\ pc = "idle"
    /\ StartBuild("build_transfer_edges")

\* build_transfer_edges, lines 409-414: the inter builder, the concat, and
\* the call self._expected_wait_times(self, self.transfer_edges), which
\* passes one argument too many and raises TypeError before line 414
BuildTransferEdgesRest ==
    /\ pc = "build_rest"
    /\ LET r == BuildIntertransferEdges(frame.transfer,
                                        FromInt(BaseTransferTime), nodes)
       IN IF r.raised
          THEN /\ Raise("ValueError")
               /\ UNCHANGED <<transfer_edges, base_weights>>
          ELSE /\ transfer_edges' = frame.transfer_edges \o r.edges
               /\ base_weights' = Column(frame.transfer_edges \o r.edges, "weight")
               /\ Raise("TypeError")
    /\ UNCHANGED <<nodes, edges, error_nodes, feed_transfers, call, pivots,
                   feed_vars>>

\* add_transfer_edges, lines 422-432
CallAddTransferEdges ==
    /\ pc = "idle"
    /\ IF transfer_edges = <<>>
       THEN StartBuild("add_transfer_edges")
       ELSE /\ Len(edges) + Len(transfer_edges) <= MaxEdgeRows
            /\ edges' = edges \o transfer_edges
            /\ edges_rebound' = TRUE
            /\ call' = "add_transfer_edges"
            /\ outcome' = "returned"
            /\ result' = <<>>
            /\ UNCHANGED <<nodes, transfer_edges, error_nodes, feed_transfers,
                           pc, frame, pivots, base_weights, averaged_edges,
                           feed_nodes, feed_edges, exc_arg, passed, restructures>>

Next ==
    \/ CallBuildIntratransferEdges
    \/ IntraLoopIteration
    \/ IntraLoopExit
    \/ CallBuildIntertransferEdges
    \/ CallExpectedWaitTimes
    \/ CallBuildTransferEdges
    \/ BuildTransferEdgesRest
    \/ CallAddTransferEdges

Spec == Init /\ [][Next]_vars

\* ------------------------------------------------- the edge aggregator
\* the tokens of the tables in the order Python compares strings
TokenOrder ==
    [i \in 1..(MaxNodes + 1) |-> ToString(i)]
        \o <<"_", "mta", "r1", "r2", "subway", "transfer", "transit">>

TokenRank(token) == CHOOSE k \in 1..Len(TokenOrder) : TokenOrder[k] = token

\* a < b on the strings the token sequences a and b spell
RECURSIVE StrLess(_, _)
StrLess(a, b) ==
    IF b = <<>> THEN FALSE
    ELSE IF a = <<>> THEN TRUE
    ELSE IF a[1] # b[1] THEN TokenRank(a[1]) < TokenRank(b[1])
    ELSE StrLess(Tail(a), Tail(b))

\* the groupby columns of averaged_edges, in the order of cols
EdgeKey(e) ==
    <<e.node_id_from, e.node_id_to, <<e.unique_agency_id>>, <<e.route_type>>,
      <<e.net_type>>>>

\* the order of the group keys: column by column
RECURSIVE KeyLess(_, _)
KeyLess(k1, k2) ==
    IF k1 = <<>> THEN FALSE
    ELSE IF k1[1] # k2[1] THEN StrLess(k1[1], k2[1])
    ELSE KeyLess(Tail(k1), Tail(k2))

\* groupby sorts the group keys
RECURSIVE SortedKeys(_)
SortedKeys(keys) ==
    IF keys = {} THEN <<>>
    ELSE LET least == CHOOSE k \in keys : \A other \in keys \ {k} : KeyLess(k, other)
         IN <<least>> \o SortedKeys(keys \ {least})

\* the body of averaged_edges, lines 439-451: one row per group key,
\* total_trips the count of the group's non-NaN weights, weight their mean
AveragedEdges(edge_table) ==
    LET keys == SortedKeys({EdgeKey(edge_table[k]) : k \in 1..Len(edge_table)})
        valid(key) ==
            Column(SelectSeq(edge_table,
                             LAMBDA e : EdgeKey(e) = key /\ ~IsNaN(e.weight)),
                   "weight")
    IN [g \in 1..Len(keys) |->
           [node_id_from |-> keys[g][1],
            node_id_to |-> keys[g][2],
            unique_agency_id |-> keys[g][3][1],
            route_type |-> keys[g][4][1],
            net_type |-> keys[g][5][1],
            total_trips |-> Len(valid(keys[g])),
            weight |-> Mean(valid(keys[g]))]]

\* g.averaged_edges(): line 128 bound the instance attribute averaged_edges
\* to a DataFrame, and line 446 rebinds it to one, so the attribute lookup
\* never finds the method: calling the DataFrame raises TypeError
CallAveragedEdges ==
    /\ pc = "idle"
    /\ call' = "averaged_edges"
    /\ outcome' = "TypeError"
    /\ result' = <<>>
    /\ UNCHANGED <<self_vars, pc, frame, pivots>>

\* GtfsGraph.averaged_edges(g): the method reached through the class
CallAveragedEdgesViaClass ==
    /\ pc = "idle"
    /\ call' = "GtfsGraph.averaged_edges"
    /\ averaged_edges' = AveragedEdges(edges)
    /\ outcome' = "returned"
    /\ result' = <<>>
    /\ UNCHANGED <<nodes, edges, transfer_edges, error_nodes, feed_transfers,
                   pc, frame, pivots, base_weights, feed_nodes, feed_edges,
                   edges_rebound, exc_arg, passed, restructures>>

NextAggregate ==
    \/ CallBuildTransferEdges
    \/ IntraLoopIteration
    \/ IntraLoopExit
    \/ BuildTransferEdgesRest
    \/ CallAddTransferEdges
    \/ CallAveragedEdges
    \/ CallAveragedEdgesViaClass

SpecAggregate == Init /\ [][NextAggregate]_vars

\* ----------------------------------------------------- the canonicalizer
\* The feed's tables as urbanaccess returns them: a node's id is its stop
\* id, "_" and the agency id; an edge carries unique_agency_id and
\* unique_route_id (the route id, "_" and the agency id).  Ids are token
\* sequences; stop and route ids hold no "_", the agency id may.
MaxStops == 2

MaxFeedTrips == 2

MaxRestructures == 2

MaxCheckRules == 1

LegacyAgency == <<"mta", "_", "new", "_", "york", "_", "city", "_", "transit">>

Agencies == {<<"septa">>, LegacyAgency}

\* str.replace(old, new)
RECURSIVE Replace(_, _, _)
Replace(s, old, new) ==
    IF Len(s) < Len(old) THEN s
    ELSE IF SubSeq(s, 1, Len(old)) = old
         THEN new \o Replace(SubSeq(s, Len(old) + 1, Len(s)), old, new)
         ELSE <<s[1]>> \o Replace(Tail(s), old, new)

\* str.split("_", maxsplit)
RECURSIVE Split(_, _)
Split(s, maxsplit) ==
    IF maxsplit = 0 \/ \A i \in 1..Len(s) : s[i] # "_" THEN <<s>>
    ELSE LET k == CHOOSE i \in 1..Len(s) :
                      s[i] = "_" /\ \A j \in 1..(i - 1) : s[j] # "_"
         IN <<SubSeq(s, 1, k - 1)>>
                \o Split(SubSeq(s, k + 1, Len(s)), maxsplit - 1)

\* lines 165-166: the old id a new node id is looked up under
StrIdx(name) ==
    LET str_split == Split(name, 2)
    IN str_split[1] \o <<"_">> \o str_split[Len(str_split)]

\* _rename_edges, lines 143-146, row by row
RenameEdges(edge_table) ==
    [k \in 1..Len(edge_table) |->
        [edge_table[k] EXCEPT
            !.node_id_from = Replace(@, edge_table[k].unique_agency_id,
                                     edge_table[k].unique_route_id),
            !.node_id_to = Replace(@, edge_table[k].unique_agency_id,
                                   edge_table[k].unique_route_id)]]

\* list(set): the members of a set in an order the build chooses
RECURSIVE Orderings(_)
Orderings(set) ==
    IF set = {} THEN {<<>>}
    ELSE UNION {{<<first>> \o rest : rest \in Orderings(set \ {first})} :
                   first \in set}

\* mutant of NewNodeIds: the endpoints that are only ever destinations are
\* left out
NewNodeIdsFromOnly(edge_table) ==
    Orderings({edge_table[k].node_id_from : k \in 1..Len(edge_table)})

\* lines 157-158: new_node_id
NewNodeIds(edge_table) ==
    LET from == {edge_table[k].node_id_from : k \in 1..Len(edge_table)}
        to == {edge_table[k].node_id_to : k \in 1..Len(edge_table)}
    IN {f \o t : f \in Orderings(from), t \in Orderings(to \ from)}

\* the new ids at which old_node_id.get_loc(str_idx) raises KeyError
KeyErrorIds(ids, node_table) ==
    {id \in ids :
        \A r \in 1..Len(node_table) : node_table[r].node_id # StrIdx(id)}

\* the new ids whose lookup can be the first to fail: the loop walks
\* list(set(from)) in the order the build chooses, then the ids that are
\* only destinations
FirstKeyErrors(edge_table, node_table) ==
    LET from == {edge_table[k].node_id_from : k \in 1..Len(edge_table)}
        to == {edge_table[k].node_id_to : k \in 1..Len(edge_table)}
    IN IF KeyErrorIds(from, node_table) # {}
       THEN KeyErrorIds(from, node_table)
       ELSE KeyErrorIds(to \ from, node_table)

\* lines 159-168 when no lookup fails: the row of each new id
NewNodes(new_node_id, node_table) ==
    [i \in 1..Len(new_node_id) |->
        LET idx == CHOOSE r \in 1..Len(node_table) :
                       node_table[r].node_id = StrIdx(new_node_id[i])
        IN [node_table[idx] EXCEPT !.node_id = new_node_id[i]]]

\* _check_transfer, lines 204: DataFrame.replace("140", "142") on the two
\* stop columns
ReplaceLegacyStop(transfer) ==
    [k \in 1..Len(transfer) |->
        [transfer[k] EXCEPT
            !.from_stop_id = IF @ = "140" THEN "142" ELSE @,
            !.to_stop_id = IF @ = "140" THEN "142" ELSE @]]

\* _check_transfer(transfer): how the call ends, the table it returns, and
\* the caller's table afterwards.  The drop of line 214 is bound to a local
\* and lost; falling off the first branch returns None.
CheckTransfer(transfer, node_table) ==
    LET interchange == SelectSeq(transfer, LAMBDA t : t.from_stop_id # t.to_stop_id)
        station_complex ==
            {interchange[k].from_stop_id : k \in 1..Len(interchange)}
                \cup {interchange[k].to_stop_id : k \in 1..Len(interchange)}
        parent_station == {node_table[i].parent_station : i \in 1..Len(node_table)}
    IN IF station_complex \subseteq parent_station
       THEN IF node_table = <<>>
            THEN [outcome |-> "IndexError", result |-> <<>>, after |-> transfer]
            ELSE IF /\ node_table[1].unique_agency_id = LegacyAgency
                    /\ \A k \in 1..Len(transfer) : transfer[k].from_stop_id # "142"
                 THEN [outcome |-> "returned",
                       result |-> ReplaceLegacyStop(transfer),
                       after |-> ReplaceLegacyStop(transfer)]
                 ELSE [outcome |-> "returned None", result |-> <<>>,
                       after |-> transfer]
       ELSE [outcome |-> "returned", result |-> transfer, after |-> transfer]

\* ---------------------------------------------- the canonicalizer's feed
\* stop 1 lies in station 142, stop 2 in station 140
ParentOfStop(i) == IF i = 1 THEN "142" ELSE IF i = 2 THEN "140" ELSE "201"

FeedNodeId(i, agency) == <<ToString(i), "_">> \o agency

FeedNodeTable(n, agency) ==
    [i \in 1..n |->
        [node_id |-> FeedNodeId(i, agency),
         stop_id |-> ToString(i),
         parent_station |-> ParentOfStop(i),
         unique_agency_id |-> agency]]

\* the odd trips run on route A, the even ones on route B
RouteOfTrip(t) == IF t % 2 = 1 THEN "A" ELSE "B"

FeedHop(i, j, t, agency) ==
    [node_id_from |-> FeedNodeId(i, agency),
     node_id_to |-> FeedNodeId(j, agency),
     weight |-> FromInt(TripWeight(t, j)),
     unique_agency_id |-> agency,
     unique_route_id |-> <<RouteOfTrip(t), "_">> \o agency,
     route_type |-> "subway",
     net_type |-> NetType]

\* trips along the line of the stops 1..m
RECURSIVE FeedEdgeTable(_, _, _)
FeedEdgeTable(m, trips, agency) ==
    IF trips = 0 THEN <<>>
    ELSE FeedEdgeTable(m, trips - 1, agency)
             \o [i \in 1..(m - 1) |-> FeedHop(i, i + 1, trips, agency)]

\* the tables a caller hands to _check_transfer: rules between the
\* stations 140 and 142, a rule to 999, a station no node names, and a
\* rule inside 999
CheckRules ==
    {FeedRule("140", "142", 180), FeedRule("142", "140", 120),
     FeedRule("142", "999", 300), FeedRule("999", "999", 90)}

CheckTables == UNION {[1..n -> CheckRules] : n \in 0..MaxCheckRules}

\* a graph fresh from __init__: n stops with node rows and a line of m
\* stops with trips; with m = n + 1 the last stop has no node row
InitCanon ==
    /\ \E agency \in Agencies, n \in 1..MaxStops, t \in 1..MaxFeedTrips :
          \E m \in {n, n + 1} :
              /\ m >= 2
              /\ nodes = FeedNodeTable(n, agency)
              /\ edges = FeedEdgeTable(m, t, agency)
    /\ feed_transfers = <<>>
    /\ transfer_edges = <<>>
    /\ error_nodes = <<>>
    /\ call = "none"
    /\ pc = "idle"
    /\ frame = NoFrame
    /\ pivots = <<>>
    /\ outcome = "none"
    /\ result = <<>>
    /\ base_weights = <<>>
    /\ averaged_edges = <<>>
    /\ feed_nodes = nodes
    /\ feed_edges = edges
    /\ edges_rebound = FALSE
    /\ exc_arg = <<>>
    /\ passed = NothingPassed
    /\ restructures = 0

\* restructure_graph, line 183: _rename_edges rewrites the table self.edges
\* names, which is the feed's own table until add_transfer_edges rebinds
\* self.edges
CallRestructureGraph ==
    /\ pc = "idle"
    /\ restructures < MaxRestructures
    /\ call' = "restructure_graph"
    /\ pc' = "rename_nodes"
    /\ outcome' = "running"
    /\ result' = <<>>
    /\ edges' = RenameEdges(edges)
    /\ feed_edges' = IF edges_rebound THEN feed_edges ELSE RenameEdges(edges)
    /\ restructures' = restructures + 1
    /\ UNCHANGED <<nodes, transfer_edges, error_nodes, feed_transfers, frame,
                   pivots, base_weights, averaged_edges, feed_nodes,
                   edges_rebound, exc_arg, passed>>

\* mutant of RenameNodes: an endpoint without a node row is left out of
\* the new table and the call returns
RenameNodesSkipsUnmatched ==
    /\ pc = "rename_nodes"
    /\ \E new_node_id \in NewNodeIds(edges) :
          nodes' = NewNodes(SelectSeq(new_node_id,
                                      LAMBDA id : KeyErrorIds({id}, nodes) = {}),
                            nodes)
    /\ pc' = "idle"
    /\ outcome' = "returned"
    /\ UNCHANGED <<edges, transfer_edges, error_nodes, feed_transfers, call,
                   frame, result, pivots, base_weights, averaged_edges,
                   feed_nodes, feed_edges, edges_rebound, exc_arg, passed,
                   restructures>>

\* restructure_graph, line 184: _rename_nodes, lines 153-170.  The rows of
\* new_nodes are in the order the sets of lines 157-158 iterate; the first
\* failed lookup raises KeyError(str_idx) before line 170 rebinds
\* self.nodes
RenameNodes ==
    /\ pc = "rename_nodes"
    /\ IF FirstKeyErrors(edges, nodes) # {}
       THEN /\ \E name \in FirstKeyErrors(edges, nodes) : exc_arg' = StrIdx(name)
            /\ Raise("KeyError")
            /\ UNCHANGED nodes
       ELSE /\ \E new_node_id \in NewNodeIds(edges) :
                  nodes' = NewNodes(new_node_id, nodes)
            /\ pc' = "idle"
            /\ outcome' = "returned"
            /\ UNCHANGED <<frame, result, exc_arg>>
    /\ UNCHANGED <<edges, transfer_edges, error_nodes, feed_transfers, call,
                   pivots, base_weights, averaged_edges, feed_nodes, feed_edges,
                   edges_rebound, passed, restructures>>

\* the caller invokes _check_transfer(transfer)
CallCheckTransfer ==
    /\ pc = "idle"
    /\ \E transfer \in CheckTables :
          LET r == CheckTransfer(transfer, nodes)
          IN /\ outcome' = r.outcome
             /\ result' = r.result
             /\ passed' = [given |-> transfer, after |-> r.after]
    /\ call' = "_check_transfer"
    /\ UNCHANGED <<nodes, edges, transfer_edges, error_nodes, feed_transfers,
                   pc, frame, pivots, base_weights, averaged_edges, feed_nodes,
                   feed_edges, edges_rebound, exc_arg, restructures>>

NextCanon ==
    \/ CallRestructureGraph
    \/ RenameNodes
    \/ CallCheckTransfer

SpecCanon == InitCanon /\ [][NextCanon]_vars

\* =============================================================== claims
\* what the claims speak of, stated from the tables alone
Ended(method) == pc = "idle" /\ call = method /\ outcome # "none"

Members(ps) == {i \in 1..Len(nodes) : nodes[i].parent_station = ps}

NullRows == Members(Null)

RowOfId(id) == CHOOSE i \in 1..Len(nodes) : nodes[i].node_id = id

StationOfId(id) == nodes[RowOfId(id)].parent_station

RouteOfId(id) == id[Len(id)]

PairRows(table, a, b) ==
    {k \in 1..Len(table) : table[k].node_id_from = a /\ table[k].node_id_to = b}

RowsFrom(table, ps) ==
    {k \in 1..Len(table) : StationOfId(table[k].node_id_from) = ps}

\* C1: for every node table the intra-station builder emits, for each
\* parent-station group of n members, exactly n * (n - 1) transfer edges:
\* one for every ordered pair of distinct members (none when n < 2), so
\* (b, a) is emitted whenever (a, b) is.
C1_EveryTableEveryGroupAllOrderedPairs ==
    Ended("_build_intratransfer_edges") =>
        /\ \A ps \in Stations :
              LET n == Cardinality(Members(ps))
              IN /\ Cardinality(RowsFrom(result, ps)) = n * (n - 1)
                 /\ \A i \in Members(ps), j \in Members(ps) :
                       i # j => Cardinality(PairRows(result, nodes[i].node_id,
                                                     nodes[j].node_id)) = 1
        /\ \A k \in 1..Len(result) :
              PairRows(result, result[k].node_id_to, result[k].node_id_from) # {}

\* C2: with null parent_station rows anywhere in the node table the intra
\* builder does not fail: the null rows are in the error-node collection,
\* no transfer edge touches them, and the other groups' transfer edges are
\* produced.
C2_NullRowsCollectedNotFatal ==
    (Ended("_build_intratransfer_edges") /\ NullRows # {}) =>
        /\ outcome = "returned"
        /\ \A i \in NullRows : \E k \in 1..Len(error_nodes) : error_nodes[k] = nodes[i]
        /\ \A k \in 1..Len(result), i \in NullRows :
              /\ result[k].node_id_from # nodes[i].node_id
              /\ result[k].node_id_to # nodes[i].node_id
        /\ \A ps \in Stations : \A i \in Members(ps), j \in Members(ps) :
              i # j => PairRows(result, nodes[i].node_id, nodes[j].node_id) # {}

\* C3: every iteration of the intra builder's loop removes the processed
\* nodes, so the working set strictly shrinks until it is empty, and each
\* distinct parent station is selected as pivot exactly once.
C3_WorkingSetStrictlyShrinks ==
    [][(pc = "intra_loop" /\ pc' = "intra_loop" /\ frame' # frame) =>
          /\ Len(frame'.transfer_nodes) < Len(frame.transfer_nodes)
          /\ \A a \in 1..Len(pivots'), b \in 1..Len(pivots') :
                pivots'[a] = pivots'[b] => a = b]_vars

\* the intra builder's transfer edges so far (its accumulator, then its
\* return value)
IntraEdges ==
    IF pc \in {"intra_loop", "build_rest"} THEN frame.transfer_edges
    ELSE IF Ended("_build_intratransfer_edges") /\ outcome = "returned" THEN result
    ELSE <<>>

\* the float w is sec seconds in minutes; the float w is the integer n
EqSeconds(w, sec) == w.den # 0 /\ w.num * 60 = sec * w.den

EqInt(w, n) == w.den # 0 /\ w.num = n * w.den

RulesFrom(ps) == {j \in 1..Len(feed_transfers) : feed_transfers[j].from_stop_id = ps}

FirstRuleFrom(ps) == CHOOSE j \in RulesFrom(ps) : \A i \in RulesFrom(ps) : j <= i

\* C4: base weight of an intra-station transfer edge: in a group of size 2
\* the min_transfer_time of the (first) rule whose from_stop is the group's
\* parent_station if there is one, else the baseline; in a larger group the
\* matched min_transfer_time only when a rule exists and the two nodes have
\* different route suffixes, else the baseline.
C4_IntraBaseWeight ==
    \A k \in 1..Len(IntraEdges) :
        LET e == IntraEdges[k]
            ps == StationOfId(e.node_id_from)
            n == Cardinality(Members(ps))
            differ == RouteOfId(e.node_id_from) # RouteOfId(e.node_id_to)
        IN /\ StationOfId(e.node_id_to) = ps
           /\ IF RulesFrom(ps) # {} /\ (n = 2 \/ differ)
              THEN EqSeconds(e.weight,
                             feed_transfers[FirstRuleFrom(ps)].min_transfer_time)
              ELSE EqInt(e.weight, BaseTransferTime)

\* a returned intra build with a group of three under a matching rule whose
\* time is not the baseline: cross-route pairs carry it, the same-route
\* pair carries the baseline
C4_Witness ==
    /\ Ended("_build_intratransfer_edges") /\ outcome = "returned"
    /\ \E ps \in Stations :
          /\ Cardinality(Members(ps)) = 3
          /\ RulesFrom(ps) # {}
          /\ \E k1 \in RowsFrom(result, ps), k2 \in RowsFrom(result, ps) :
                /\ ~EqInt(result[k1].weight, BaseTransferTime)
                /\ RouteOfId(result[k2].node_id_from) = RouteOfId(result[k2].node_id_to)
                /\ EqInt(result[k2].weight, BaseTransferTime)

\* the rules between two different stations, in table order, and the block
\* of rows each contributes
InterchangeRows ==
    SelectSeq(feed_transfers, LAMBDA t : t.from_stop_id # t.to_stop_id)

Combined(rule) == Members(rule.from_stop_id) \cup Members(rule.to_stop_id)

BlockLen(rule) == Cardinality(Combined(rule)) * (Cardinality(Combined(rule)) - 1)

RECURSIVE BlockEnd(_)
BlockEnd(j) == IF j = 0 THEN 0 ELSE BlockEnd(j - 1) + BlockLen(InterchangeRows[j])

RuleOfRow(k) ==
    InterchangeRows[CHOOSE j \in 1..Len(InterchangeRows) :
                        BlockEnd(j - 1) < k /\ k <= BlockEnd(j)]

\* C5: for every rule with from_stop # to_stop the inter builder emits one
\* transfer edge per ordered pair of distinct nodes of the two stations'
\* combined node set (m * (m - 1) edges), and none for the other rules.
C5_EveryRuleAllOrderedPairs ==
    Ended("_build_intertransfer_edges") =>
        /\ Len(result) = BlockEnd(Len(InterchangeRows))
        /\ \A j \in 1..Len(InterchangeRows) :
              \A a \in Combined(InterchangeRows[j]), b \in Combined(InterchangeRows[j]) :
                 a # b =>
                    \E k \in (BlockEnd(j - 1) + 1)..BlockEnd(j) :
                        /\ k <= Len(result)
                        /\ result[k].node_id_from = nodes[a].node_id
                        /\ result[k].node_id_to = nodes[b].node_id

\* C6: an edge the inter builder emits for a rule weighs the rule's
\* min_transfer_time in minutes (seconds / 60) when its endpoints are on
\* different routes, and the baseline when they are on the same route.
C6_InterBaseWeight ==
    (Ended("_build_intertransfer_edges") /\ outcome = "returned") =>
        /\ Len(result) = BlockEnd(Len(InterchangeRows))
        /\ \A k \in 1..Len(result) :
              LET e == result[k]
                  rule == RuleOfRow(k)
              IN /\ RowOfId(e.node_id_from) \in Combined(rule)
                 /\ RowOfId(e.node_id_to) \in Combined(rule)
                 /\ IF RouteOfId(e.node_id_from) # RouteOfId(e.node_id_to)
                    THEN EqSeconds(e.weight, rule.min_transfer_time)
                    ELSE EqInt(e.weight, BaseTransferTime)

\* a returned inter build with a rule whose time is not the baseline: a
\* cross-route edge carries it, a same-route edge between the two stations
\* carries the baseline
C6_Witness ==
    /\ Ended("_build_intertransfer_edges") /\ outcome = "returned"
    /\ \E k1 \in 1..Len(result), k2 \in 1..Len(result) :
          /\ RuleOfRow(k1) = RuleOfRow(k2)
          /\ ~EqInt(result[k1].weight, BaseTransferTime)
          /\ EqSeconds(result[k1].weight, RuleOfRow(k1).min_transfer_time)
          /\ StationOfId(result[k2].node_id_from) # StationOfId(result[k2].node_id_to)
          /\ RouteOfId(result[k2].node_id_from) = RouteOfId(result[k2].node_id_to)
          /\ EqInt(result[k2].weight, BaseTransferTime)

\* C7: a rule whose two stations have no nodes contributes no edge and no
\* error; the other rules still contribute theirs.
C7_EmptyRuleNoError ==
    (Ended("_build_intertransfer_edges")
     /\ \E j \in 1..Len(InterchangeRows) : Combined(InterchangeRows[j]) = {}) =>
        /\ outcome = "returned"
        /\ Len(result) = BlockEnd(Len(InterchangeRows))

\* half the mean weight of the scheduled (non-transfer) edges into id
ScheduledInto(id) ==
    SelectSeq(edges, LAMBDA e : e.route_type # "transfer" /\ e.node_id_to = id)

HalfMeanScheduled(id) == DivInt(Mean(Column(ScheduledInto(id), "weight")), 2)

C8_BuildAddsWait ==
    (pc = "idle" /\ call \in {"build_transfer_edges", "add_transfer_edges"}) =>
        \A k \in 1..Len(transfer_edges) :
            transfer_edges[k].weight =
                Add(base_weights[k], HalfMeanScheduled(transfer_edges[k].node_id_to))

C8_MeanOverScheduledOnly ==
    Ended("_expected_wait_times") =>
        \A k \in 1..Len(transfer_edges) :
            result[k] = HalfMeanScheduled(transfer_edges[k].node_id_to)

\* C8: after any sequence of build_transfer_edges and add_transfer_edges
\* calls, the wait added to a transfer edge's weight is half the mean
\* weight of the scheduled edges into its destination; transfer edges
\* already appended to the edge table never enter that mean.
C8_WaitIsHalfMeanScheduled == C8_BuildAddsWait /\ C8_MeanOverScheduledOnly

\* C9: the estimator never decreases a weight: with the wait added, every
\* transfer edge weighs at least its base weight (added wait >= 0).
C9_WaitNeverDecreases ==
    Ended("_expected_wait_times") =>
        \A k \in 1..Len(transfer_edges) :
            /\ Geq(result[k], FromInt(0))
            /\ Geq(Add(transfer_edges[k].weight, result[k]), transfer_edges[k].weight)

\* C10: for a transfer edge whose destination has no scheduled in-edges
\* the estimator reports a failure tied to that node instead of yielding
\* a zero or undefined wait.
C10_NoInEdgesIsReported ==
    (Ended("_expected_wait_times")
     /\ \E k \in 1..Len(transfer_edges) :
           ScheduledInto(transfer_edges[k].node_id_to) = <<>>) =>
        /\ outcome # "returned"
        /\ \A k \in 1..Len(result) : ~IsNaN(result[k])

IsTransfer(e) == e.route_type = "transfer"

\* C17: after one or more add_transfer_edges calls, the last of which
\* returned, the edge table holds every scheduled edge unchanged and each
\* built transfer edge exactly once; a repeated call appends nothing.
C17_TransferEdgesAddedOnce ==
    (Ended("add_transfer_edges") /\ outcome = "returned") =>
        /\ SelectSeq(edges, LAMBDA e : ~IsTransfer(e)) = feed_edges
        /\ SelectSeq(edges, IsTransfer) = transfer_edges

\* C18: the transfer edges build_transfer_edges stores hold at most one
\* edge per ordered (from node, to node) pair.
C18_OneTransferEdgePerPair ==
    \A k1 \in 1..Len(transfer_edges), k2 \in 1..Len(transfer_edges) :
        (/\ transfer_edges[k1].node_id_from = transfer_edges[k2].node_id_from
         /\ transfer_edges[k1].node_id_to = transfer_edges[k2].node_id_to) => k1 = k2

\* the two ways a caller can invoke the aggregator
AggregatorCalls == {"averaged_edges", "GtfsGraph.averaged_edges"}

GroupRows(table, key) == {k \in 1..Len(table) : EdgeKey(table[k]) = key}

GroupWeights(table, key) ==
    Column(SelectSeq(table, LAMBDA e : EdgeKey(e) = key), "weight")

Scale(x, n) == IF IsNaN(x) THEN NaN ELSE Norm(x.num * n, x.den)

\* agg holds one row per key of table, with the group's size and mean
IsAggregateOf(agg, table) ==
    /\ \A k \in 1..Len(table) :
          Cardinality(GroupRows(agg, EdgeKey(table[k]))) = 1
    /\ \A g \in 1..Len(agg) :
          LET key == EdgeKey(agg[g])
          IN /\ GroupRows(table, key) # {}
             /\ agg[g].total_trips = Cardinality(GroupRows(table, key))
             /\ agg[g].weight = Mean(GroupWeights(table, key))
             /\ Scale(agg[g].weight, agg[g].total_trips)
                    = SumWeights(GroupWeights(table, key))

\* C11: a call of averaged_edges ends with one aggregated edge per distinct
\* key of the edge table, its trip count the number of edges with the key
\* and its weight their mean, so that mean * count is the sum of the
\* group's weights.
C11_OneEdgePerKeyCountAndMean ==
    (pc = "idle" /\ call \in AggregatorCalls) =>
        /\ outcome = "returned"
        /\ IsAggregateOf(averaged_edges, edges)

KeysOccurOnce(table) ==
    \A k \in 1..Len(table) : Cardinality(GroupRows(table, EdgeKey(table[k]))) = 1

\* agg is table with trip count 1 on every row, weights unchanged
SameEdgesCountOne(agg, table) ==
    {[node_id_from |-> e.node_id_from, node_id_to |-> e.node_id_to,
      unique_agency_id |-> e.unique_agency_id, route_type |-> e.route_type,
      net_type |-> e.net_type, weight |-> e.weight, total_trips |-> 1] :
        e \in {table[k] : k \in 1..Len(table)}}
    = {agg[g] : g \in 1..Len(agg)}

\* C12: every call of averaged_edges returns; on an edge table in which
\* every key occurs once it yields the same edges with trip count 1 and
\* unchanged weights; and a call that follows a call yields what the first
\* call yielded.
C12_AggregatorIdempotent ==
    [][(call' \in AggregatorCalls) =>
          /\ outcome' = "returned"
          /\ KeysOccurOnce(edges) => SameEdgesCountOne(averaged_edges', edges)
          /\ (call \in AggregatorCalls /\ outcome = "returned")
                 => averaged_edges' = averaged_edges]_vars

EndpointIds(table) ==
    {table[k].node_id_from : k \in 1..Len(table)}
        \cup {table[k].node_id_to : k \in 1..Len(table)}

NodeIdSet(table) == {table[i].node_id : i \in 1..Len(table)}

\* the id of an endpoint of edge e once the route id qualifies it
RouteQualified(id, e) ==
    SubSeq(id, 1, Len(id) - Len(e.unique_agency_id)) \o e.unique_route_id

\* the id an endpoint of the rewritten edge e had before the rewriting
Unqualified(id, e) ==
    SubSeq(id, 1, Len(id) - Len(e.unique_route_id)) \o e.unique_agency_id

AgencySuffix(id, agency) == SubSeq(id, Len(id) - Len(agency) + 1, Len(id))

\* C13: restructure_graph rewrites the edges first, leaving the nodes as
\* they were; when it then returns, the edges are those rewritten edges,
\* the node table has exactly one row per endpoint id of theirs, and each
\* row carries the attributes of the old row of the same stop and agency.
C13_EdgesRewrittenThenNodesDerived ==
    [][/\ (pc = "idle" /\ pc' = "rename_nodes") =>
             /\ nodes' = nodes
             /\ Len(edges') = Len(edges)
             /\ \A k \in 1..Len(edges) :
                   /\ edges'[k].node_id_from
                          = RouteQualified(edges[k].node_id_from, edges[k])
                   /\ edges'[k].node_id_to
                          = RouteQualified(edges[k].node_id_to, edges[k])
       /\ (pc = "rename_nodes" /\ outcome' = "returned") =>
             /\ edges' = edges
             /\ NodeIdSet(nodes') = EndpointIds(edges)
             /\ Len(nodes') = Cardinality(EndpointIds(edges))
             /\ \A i \in 1..Len(nodes') : \E r \in 1..Len(nodes) :
                   /\ nodes[r].stop_id = nodes'[i].node_id[1]
                   /\ nodes[r].unique_agency_id
                          = AgencySuffix(nodes'[i].node_id, nodes[r].unique_agency_id)
                   /\ [nodes'[i] EXCEPT !.node_id = nodes[r].node_id] = nodes[r]]_vars

\* a restructure_graph that returned, on a feed with two routes
C13_Witness ==
    /\ Ended("restructure_graph")
    /\ outcome = "returned"
    /\ Len(nodes) >= 4
    /\ NodeIdSet(nodes) = EndpointIds(edges)
    /\ \E i \in 1..Len(nodes) : nodes[i].node_id[3] = "B"

\* the pre-rewriting ids of the edge endpoints that no node row has
UnmatchedOriginals ==
    ({Unqualified(edges[k].node_id_from, edges[k]) : k \in 1..Len(edges)}
        \cup {Unqualified(edges[k].node_id_to, edges[k]) : k \in 1..Len(edges)})
    \ NodeIdSet(nodes)

\* C14: when a rewritten edge endpoint has no row in the node table,
\* restructure_graph ends with a KeyError whose argument is the stop-and-
\* agency id of such an endpoint, and the graph's node table is left as it
\* was.
C14_UnmatchedEndpointAborts ==
    [][(pc = "rename_nodes" /\ UnmatchedOriginals # {}) =>
          /\ pc' = "idle"
          /\ outcome' = "KeyError"
          /\ exc_arg' \in UnmatchedOriginals
          /\ nodes' = nodes]_vars

\* a first restructure_graph that met the stop without a node row
C14_Witness ==
    /\ Ended("restructure_graph")
    /\ outcome = "KeyError"
    /\ restructures = 1
    /\ exc_arg = FeedNodeId(Len(nodes) + 1, nodes[1].unique_agency_id)
    /\ nodes = feed_nodes

IsAgencyQualified(id, agency) == id = <<id[1], "_">> \o agency

\* C15: the feed's edge table keeps its agency-qualified endpoint ids, and
\* the table handed to _check_transfer is afterwards what it was.
C15_InputTablesNotMutated ==
    /\ \A k \in 1..Len(feed_edges) :
          /\ IsAgencyQualified(feed_edges[k].node_id_from,
                               feed_edges[k].unique_agency_id)
          /\ IsAgencyQualified(feed_edges[k].node_id_to,
                               feed_edges[k].unique_agency_id)
    /\ passed.after = passed.given

InterStations(table) ==
    {table[k].from_stop_id : k \in {j \in 1..Len(table) :
                                       table[j].from_stop_id # table[j].to_stop_id}}
        \cup {table[k].to_stop_id : k \in {j \in 1..Len(table) :
                                       table[j].from_stop_id # table[j].to_stop_id}}

ParentStations == {nodes[i].parent_station : i \in 1..Len(nodes)}

\* the stations of inter-station rules that the node table lacks and that
\* renaming 140 to 142 does not supply
UnresolvedMissing(table) ==
    {st \in InterStations(table) :
        /\ st \notin ParentStations
        /\ ~(st = "140" /\ "142" \in ParentStations)}

\* C16: _check_transfer returns a table without any rule from or to a
\* station that is missing and not remapped; and when every station of the
\* inter-station rules is present it returns a table.
C16_MissingDroppedElseUsable ==
    Ended("_check_transfer") =>
        /\ UnresolvedMissing(passed.given) # {} =>
              /\ outcome = "returned"
              /\ \A k \in 1..Len(result) :
                    /\ result[k].from_stop_id \notin UnresolvedMissing(passed.given)
                    /\ result[k].to_stop_id \notin UnresolvedMissing(passed.given)
        /\ InterStations(passed.given) \subseteq ParentStations =>
              outcome = "returned"

====
